---- MODULE Spec2Model ----
(***************************************************************************)
(* A model of the arcade racing game: the render-driven simulation tick    *)
(* (RacingGame.animate and the entity classes of game/engine.ts), the      *)
(* React session lifecycle around it (startGame, handleGameOver, the       *)
(* gameState effect) and the SoundManager's lookahead music scheduler.     *)
(*                                                                         *)
(* Units.  Time of the simulation is counted in frames of 1/60 s, so a     *)
(* deltaTime of dtF frames is dtF/60 seconds.  Lengths are counted in      *)
(* sub-pixels of 1/600 px, which makes speed (a multiple of 1/2 px per     *)
(* frame) times speedMultiplier (a multiple of 1/100) times a whole number *)
(* of frames an integer, and the lateral speed of a lane change (100/60 px *)
(* per frame) too.  The audio clock is counted in units of 25 ms.          *)
(* Math.random() draws are nondeterministic choices.  Arithmetic is exact  *)
(* (the source computes in IEEE doubles).                                  *)
(***************************************************************************)
EXTENDS Integers, Sequences, FiniteSets, TLC

VARIABLES
  gameState,      \* React state gameState: the value last passed to setGameState
  renderedState,  \* gameState as seen by the closures of the last committed render
  mounted,        \* the RacingGame component is mounted
  pendingStarts,  \* startGame calls suspended at "await init()"
  difficulty,     \* React state difficulty
  difficultyRef,  \* difficultyRef.current
  score,          \* React state score (what the presentation layer shows)
  scoreRef,       \* scoreRef.current
  player,         \* playerRef.current: a record, or NoPlayer for null
  obstacles,      \* obstaclesRef.current: the live-entity list
  particles,      \* particleSystemRef.current.particles
  laneOffset,     \* roadRef.current.laneOffset
  lastTimeSet,    \* lastTimeRef.current # 0
  frames,         \* pending requestAnimationFrame callbacks, oldest first
  tickLog,        \* what the last step did, when it was a tick (history)
  session,        \* totals since the last StartSession (history)
  sound,          \* the SoundManager instance
  audioClock      \* AudioContext.currentTime

gameVars == <<gameState, renderedState, mounted, pendingStarts, difficulty,
              difficultyRef, score, scoreRef, player, obstacles, particles,
              laneOffset, lastTimeSet, frames, tickLog, session>>
audioVars == <<sound, audioClock>>
vars == <<gameVars, audioVars>>

(***************************************************************************)
(* Bounds of the model (not program constants).                            *)
(***************************************************************************)
\* live entities beyond which the model draws no further spawn
MaxObstacles == 2
\* the model draws no spawn that could take the score above this
MaxScore == 2
\* startGame calls that may be suspended at the await at the same time
MaxPendingStarts == 2
\* the model resumes no startGame while this many render callbacks wait
MaxFrames == 2
\* the audio clock stops advancing here (units of 25 ms)
MaxClock == 24
\* the longest the audio clock advances in one step (units of 25 ms)
MaxJitter == 12

Max(a, b) == IF a >= b THEN a ELSE b
Abs(a) == IF a >= 0 THEN a ELSE 0 - a

(***************************************************************************)
(* SoundManager (components/RacingGame.tsx, class SoundManager).           *)
(*                                                                         *)
(* The instance is a record.  Timer ids are abstracted: timerPending says  *)
(* that the timer named by this.timerID is pending, strayTimers counts the *)
(* pending scheduler timers that timerID no longer names.  Oscillators are *)
(* abstracted the same way: engineOsc says that this.engineOsc is          *)
(* non-null, and the ghost fields count what is still sounding:            *)
(*   liveEngines   engine oscillators started and not stopped              *)
(*   liveMusic     music nodes created and not stopped by stopMusic        *)
(*   notes         the calls of scheduleNote of the current music run      *)
(***************************************************************************)
\* nextNoteTime += 0.25, in units of 25 ms
NOTE_INTERVAL == 10
\* the lookahead window 0.1 s, in units of 25 ms
LOOKAHEAD == 4
\* beats per bar: floor(time * 4) % 8
BAR_LENGTH == 8

SoundInit ==
  [ isMusicPlaying |-> FALSE, timerPending |-> FALSE, strayTimers |-> 0,
    nextNoteTime |-> 0, musicNodes |-> <<>>, engineOsc |-> FALSE,
    engineFreq |-> 0,
    liveEngines |-> 0, liveMusic |-> 0, notes |-> <<>> ]

\* window.setTimeout(() => this.scheduler(), 25), assigned to this.timerID
setSchedulerTimer(s) ==
  [s EXCEPT !.strayTimers = IF s.timerPending THEN @ + 1 ELSE @,
            !.timerPending = TRUE]

\* window.clearTimeout(this.timerID)
clearSchedulerTimer(s) == [s EXCEPT !.timerPending = FALSE]

\* a bar of four beats
beatOfFourBeatBar(time) == (time \div NOTE_INTERVAL) % 4

\* const beat = Math.floor(time * 4) % 8   (time in units of 25 ms)
beatOf(time) == (time \div NOTE_INTERVAL) % BAR_LENGTH

pushNode(s, kind, time) ==
  [s EXCEPT !.musicNodes = Append(@, [kind |-> kind, time |-> time]),
            !.liveMusic = @ + 1]

playKick(s, time) == pushNode(s, "kick", time)

\* a hi-hat that is started but never recorded in musicNodes
playHiHatUntracked(s, time) == [s EXCEPT !.liveMusic = @ + 1]

playHiHat(s, time) == pushNode(s, "hihat", time)

\* const freq = beat < 4 ? 55 : 65
playBass(s, time, beat) ==
  pushNode(s, IF beat < 4 THEN "bass55" ELSE "bass65", time)

scheduleNote(s, time, now) ==
  LET beat == beatOf(time)
      s0 == [s EXCEPT !.notes = Append(@, [t |-> time, now |-> now])]
      s1 == IF beat = 0 \/ beat = 4 THEN playKick(s0, time) ELSE s0
      s2 == IF beat % 2 # 0 THEN playHiHat(s1, time) ELSE s1
  IN  playBass(s2, time, beat)

\* while (this.nextNoteTime < this.ctx.currentTime + 0.1) { ... }
RECURSIVE scheduleWhile(_, _)
scheduleWhile(s, now) ==
  IF s.nextNoteTime < now + LOOKAHEAD
  THEN scheduleWhile([scheduleNote(s, s.nextNoteTime, now)
                        EXCEPT !.nextNoteTime = @ + NOTE_INTERVAL], now)
  ELSE s

\* a scheduler that moves a cursor the clock has passed up to the clock
schedulerCatchUp(s, now) ==
  IF ~s.isMusicPlaying THEN s
  ELSE setSchedulerTimer(
         scheduleWhile([s EXCEPT !.nextNoteTime = Max(@, now)], now))

\* a scheduler with "if" in place of "while": one note per firing at most
schedulerOneNote(s, now) ==
  IF ~s.isMusicPlaying THEN s
  ELSE setSchedulerTimer(
         IF s.nextNoteTime < now + LOOKAHEAD
         THEN [scheduleNote(s, s.nextNoteTime, now)
                 EXCEPT !.nextNoteTime = @ + NOTE_INTERVAL]
         ELSE s)

scheduler(s, now) ==
  IF ~s.isMusicPlaying THEN s ELSE setSchedulerTimer(scheduleWhile(s, now))

\* startMusic without the isMusicPlaying guard
startMusicUnguarded(s, now) ==
  scheduler([s EXCEPT !.isMusicPlaying = TRUE, !.nextNoteTime = now], now)

startMusic(s, now) ==
  IF s.isMusicPlaying THEN s
  ELSE scheduler([s EXCEPT !.isMusicPlaying = TRUE, !.nextNoteTime = now,
                           !.notes = <<>>], now)

stopMusic(s) ==
  [clearSchedulerTimer(s) EXCEPT !.isMusicPlaying = FALSE,
                                  !.liveMusic = @ - Len(s.musicNodes),
                                  !.musicNodes = <<>>]

stopEngine(s) ==
  IF s.engineOsc
  THEN [s EXCEPT !.engineOsc = FALSE, !.liveEngines = @ - 1]
  ELSE s

\* startEngine without the leading this.stopEngine()
startEngineNoStop(s) ==
  [s EXCEPT !.engineOsc = TRUE, !.liveEngines = @ + 1, !.engineFreq = 80 * 100]

startEngine(s) ==
  [stopEngine(s) EXCEPT !.engineOsc = TRUE, !.liveEngines = @ + 1,
                        !.engineFreq = 80 * 100]

\* an updateEngine that starts the oscillator when there is none
updateEngineRestart(s, mult100) ==
  [(IF s.engineOsc THEN s ELSE startEngineNoStop(s))
     EXCEPT !.engineFreq = 80 * 100 + mult100 * 60]

\* const targetFreq = 80 + (speedMultiplier * 60), in 1/100 Hz; mult100 is
\* speedMultiplier in 1/100
updateEngine(s, mult100) ==
  IF s.engineOsc THEN [s EXCEPT !.engineFreq = 80 * 100 + mult100 * 60] ELSE s

(***************************************************************************)
(* The audio subsystem on its own: any order of the SoundManager's public  *)
(* calls, scheduler timers firing with any delay, and the audio clock      *)
(* advancing.                                                              *)
(***************************************************************************)
AudioStartMusic ==
  /\ sound' = startMusic(sound, audioClock)
  /\ UNCHANGED <<audioClock, gameVars>>

AudioStopMusic ==
  /\ sound' = stopMusic(sound)
  /\ UNCHANGED <<audioClock, gameVars>>

AudioStartEngine ==
  /\ sound' = startEngine(sound)
  /\ UNCHANGED <<audioClock, gameVars>>

AudioStopEngine ==
  /\ sound' = stopEngine(sound)
  /\ UNCHANGED <<audioClock, gameVars>>

\* the sound manager after one of its pending scheduler timers has left the
\* timer queue to run: the one timerID names, or one it no longer names
timerFired(s) ==
  (IF s.timerPending THEN {[s EXCEPT !.timerPending = FALSE]} ELSE {})
    \cup (IF s.strayTimers > 0 THEN {[s EXCEPT !.strayTimers = @ - 1]} ELSE {})

\* a pending scheduler timer fires, however late: () => this.scheduler()
TimerFire ==
  /\ \E f \in timerFired(sound) : sound' = scheduler(f, audioClock)
  /\ UNCHANGED <<audioClock, gameVars>>

AdvanceClock ==
  \E d \in 1..MaxJitter :
    /\ audioClock + d <= MaxClock
    /\ audioClock' = audioClock + d
    /\ UNCHANGED <<sound, gameVars>>


(***************************************************************************)
(* Geometry and entities (game/engine.ts).                                 *)
(***************************************************************************)
CANVAS_WIDTH == 400
CANVAS_HEIGHT == 600
\* sub-pixels per pixel: speeds count halves, multipliers count hundredths,
\* the lateral speed of 100/60 px per frame counts thirds
SubPx == 2 * 100 * 3
Px(n) == n * SubPx

\* const LANES = [50, 150, 250, 350]
LANES == <<50, 150, 250, 350>>

CarTypes == {"SPORTS", "F1", "MUSCLE", "CLASSIC", "FUTURE", "TRUCK"}

CAR_CONFIGS(type) ==
  CASE type = "SPORTS"  -> [width |-> 50, height |-> 80]
    [] type = "F1"      -> [width |-> 46, height |-> 86]
    [] type = "MUSCLE"  -> [width |-> 54, height |-> 82]
    [] type = "CLASSIC" -> [width |-> 52, height |-> 84]
    [] type = "FUTURE"  -> [width |-> 48, height |-> 88]
    [] type = "TRUCK"   -> [width |-> 58, height |-> 90]

Difficulties == {"EASY", "MEDIUM", "HARD", "EXTREME"}

\* DIFFICULTY_CONFIG[d].speedScale, in 1/100
speedScale100(d) ==
  CASE d = "EASY"    -> 2
    [] d = "MEDIUM"  -> 5
    [] d = "HARD"    -> 10
    [] d = "EXTREME" -> 20

\* a multiplier that falls as the score grows
speedMultiplierFalling(sc, d) == 100 - sc * speedScale100(d)

\* const speedMultiplier = 1 + (scoreRef.current * settings.speedScale), in 1/100
speedMultiplier100(sc, d) == 100 + sc * speedScale100(d)

\* getBounds(): left, right, top, bottom of an entity
getBounds(o) ==
  [left |-> o.x, right |-> o.x + o.width, top |-> o.y, bottom |-> o.y + o.height]

\* an overlap test that lets go of a rectangle touching on the right only
checkCollisionRightOpen(this, other) ==
  LET r1 == getBounds(this)
      r2 == getBounds(other)
  IN  ~(r2.left >= r1.right \/ r2.right < r1.left
          \/ r2.top > r1.bottom \/ r2.bottom < r1.top)

\* this.checkCollision(other)
checkCollision(this, other) ==
  LET r1 == getBounds(this)
      r2 == getBounds(other)
  IN  ~(r2.left > r1.right \/ r2.right < r1.left
          \/ r2.top > r1.bottom \/ r2.bottom < r1.top)

\* an off-screen test that waits one more entity length
isOffScreenLate(o, canvasHeight) == o.y > Px(canvasHeight) + o.height

isOffScreen(o, canvasHeight) == o.y > Px(canvasHeight)

NoPlayer == [kind |-> "none"]

\* the selected car: the model keeps useState's initial value
selectedCar == "SPORTS"

\* a player whose left edge, not its centre, is at the middle of the canvas
PlayerCarOffCentre(canvasWidth, canvasHeight, type) ==
  LET config == CAR_CONFIGS(type)
  IN  [kind |-> "player",
       x |-> Px(canvasWidth) \div 2,
       y |-> Px(canvasHeight - config.height - 20),
       width |-> Px(config.width), height |-> Px(config.height)]

\* a player whose top, not its bottom, is 20 px above the canvas's lower edge
PlayerCarBelowCanvas(canvasWidth, canvasHeight, type) ==
  LET config == CAR_CONFIGS(type)
  IN  [kind |-> "player",
       x |-> Px(canvasWidth) \div 2 - Px(config.width) \div 2,
       y |-> Px(canvasHeight - 20),
       width |-> Px(config.width), height |-> Px(config.height)]

\* new PlayerCar(canvasWidth, canvasHeight, type)
PlayerCar(canvasWidth, canvasHeight, type) ==
  LET config == CAR_CONFIGS(type)
  IN  [kind |-> "player",
       x |-> Px(canvasWidth) \div 2 - Px(config.width) \div 2,
       y |-> Px(canvasHeight - config.height - 20),
       width |-> Px(config.width), height |-> Px(config.height)]

\* a player update without the left boundary check
playerUpdateNoLeftClamp(p, dtF, keys, canvasWidth) ==
  LET moveDistance == Px(5) * dtF
      x1 == IF keys.left THEN p.x - moveDistance ELSE p.x
      x2 == IF keys.right THEN x1 + moveDistance ELSE x1
      x4 == IF x2 > Px(canvasWidth) - p.width - Px(10)
            THEN Px(canvasWidth) - p.width - Px(10) ELSE x2
  IN  [p EXCEPT !.x = x4]

\* PlayerCar.update: speed is 300 px/s, that is 5 px per frame
playerUpdate(p, dtF, keys, canvasWidth) ==
  LET moveDistance == Px(5) * dtF
      x1 == IF keys.left THEN p.x - moveDistance ELSE p.x
      x2 == IF keys.right THEN x1 + moveDistance ELSE x1
      x3 == IF x2 < Px(10) THEN Px(10) ELSE x2
      x4 == IF x3 > Px(canvasWidth) - p.width - Px(10)
            THEN Px(canvasWidth) - p.width - Px(10) ELSE x3
  IN  [p EXCEPT !.x = x4]

NoLane == 0 - 1

\* the fields of an obstacle; speed2 is the speed in half pixels per frame,
\* the timers count frames
Obstacle(kind, x, y, w, h, speed2, timer) ==
  [kind |-> kind, x |-> Px(x), y |-> Px(y), width |-> Px(w), height |-> Px(h),
   speed2 |-> speed2, targetLaneX |-> NoLane, laneChangeTimer |-> timer,
   blinkerState |-> FALSE, blinkerTimer |-> 0, blinkerSide |-> "none"]

\* new ObstacleCar(x, speed): laneChangeTimer = Math.random() * 2
ObstacleCar(x, speed2, timer) == Obstacle("car", x, 0 - 100, 50, 80, speed2, timer)

\* new Truck(x, speed)
Truck(x, speed2) == Obstacle("truck", x, 0 - 150, 60, 120, speed2, 0)

\* new Barrier(x): speed 6
Barrier(x) == Obstacle("barrier", x, 0 - 50, 40, 40, 12, 0)

\* a vertical movement per tick, whatever the time between ticks
moveDownPerTick(o, dtF, mult100) ==
  [o EXCEPT !.y = @ + o.speed2 * mult100 * 3]

\* this.y += this.speed * context.speedMultiplier * deltaTime * 60
moveDown(o, dtF, mult100) ==
  [o EXCEPT !.y = @ + o.speed2 * mult100 * dtF * 3]

\* LANES.findIndex(l => Math.abs(l - center) < 30); 0 stands for -1
laneIndexOf(x) ==
  LET hits == {i \in 1..Len(LANES) : Abs(Px(LANES[i]) - x) < Px(30)}
  IN  IF hits = {} THEN 0 ELSE CHOOSE i \in hits : \A j \in hits : i <= j

\* a clearance of 100 px instead of 150 px
isBlockedShortClearance(o, targetX, others) ==
  \E b \in others :
    /\ Abs(getBounds(b).left - Px(targetX)) < Px(30)
    /\ Abs(getBounds(b).top - o.y) < Px(100)

\* the lane tested is the car's own, not the target
isBlockedOwnLane(o, targetX, others) ==
  \E b \in others :
    /\ Abs(getBounds(b).left - o.x) < Px(30)
    /\ Abs(getBounds(b).top - o.y) < Px(150)

\* tryChangeLane's isBlocked: others are the entities other than the car
isBlocked(o, targetX, others) ==
  \E b \in others :
    /\ Abs(getBounds(b).left - Px(targetX)) < Px(30)
    /\ Abs(getBounds(b).top - o.y) < Px(150)

\* a tryChangeLane that picks its target among all the other lanes
tryChangeLaneAnyOther(o, others) ==
  LET cur == laneIndexOf(o.x)
      options == (1..Len(LANES)) \ {cur}
  IN  IF cur = 0 \/ options = {} THEN {o}
      ELSE {IF isBlocked(o, LANES[t], others) THEN o
            ELSE [o EXCEPT !.targetLaneX = Px(LANES[t]),
                           !.blinkerSide = IF t < cur THEN "left" ELSE "right"]
            : t \in options}

\* a tryChangeLane that sets the blinker although the target lane is blocked
tryChangeLaneBlinksWhenBlocked(o, others) ==
  LET cur == laneIndexOf(o.x)
      options == (IF cur > 1 THEN {cur - 1} ELSE {})
                   \cup (IF cur >= 1 /\ cur < Len(LANES) THEN {cur + 1} ELSE {})
  IN  IF cur = 0 \/ options = {} THEN {o}
      ELSE {IF isBlocked(o, LANES[t], others)
            THEN [o EXCEPT !.blinkerSide = IF t < cur THEN "left" ELSE "right"]
            ELSE [o EXCEPT !.targetLaneX = Px(LANES[t]),
                           !.blinkerSide = IF t < cur THEN "left" ELSE "right"]
            : t \in options}

\* ObstacleCar.tryChangeLane: the cars it may leave, one per draw of the
\* target lane
tryChangeLane(o, others) ==
  LET cur == laneIndexOf(o.x)
      options == (IF cur > 1 THEN {cur - 1} ELSE {})
                   \cup (IF cur >= 1 /\ cur < Len(LANES) THEN {cur + 1} ELSE {})
  IN  IF cur = 0 \/ options = {} THEN {o}
      ELSE {IF isBlocked(o, LANES[t], others) THEN o
            ELSE [o EXCEPT !.targetLaneX = Px(LANES[t]),
                           !.blinkerSide = IF t < cur THEN "left" ELSE "right"]
            : t \in options}

\* const moveSpeed = 100 * deltaTime, in sub-pixels
lateralStep(dtF) == (Px(100) * dtF) \div 60

\* a lane change that never snaps to the lane
laneChangeStepNoSnap(o, moveSpeed) ==
  [o EXCEPT !.x = IF o.x < o.targetLaneX
                  THEN @ + moveSpeed ELSE @ - moveSpeed]

\* a lane change whose snap leaves the blinker side set
laneChangeStepKeepsBlinker(o, moveSpeed) ==
  IF Abs(o.x - o.targetLaneX) < moveSpeed
  THEN [o EXCEPT !.x = o.targetLaneX, !.targetLaneX = NoLane]
  ELSE [o EXCEPT !.x = IF o.x < o.targetLaneX
                       THEN @ + moveSpeed ELSE @ - moveSpeed]

\* a lane change that snaps only once the car is on the lane
laneChangeStepSnapsLate(o, moveSpeed) ==
  IF o.x = o.targetLaneX
  THEN [o EXCEPT !.targetLaneX = NoLane, !.blinkerSide = "none"]
  ELSE [o EXCEPT !.x = IF o.x < o.targetLaneX
                       THEN @ + moveSpeed ELSE @ - moveSpeed]

\* ObstacleCar.update, the active lane change: snap to the lane when it is
\* less than one step away, else one step toward it
laneChangeStep(o, moveSpeed) ==
  IF Abs(o.x - o.targetLaneX) < moveSpeed
  THEN [o EXCEPT !.x = o.targetLaneX, !.targetLaneX = NoLane,
                 !.blinkerSide = "none"]
  ELSE [o EXCEPT !.x = IF o.x < o.targetLaneX
                       THEN @ + moveSpeed ELSE @ - moveSpeed]

\* ObstacleCar.update: the cars it may leave, one per outcome of the draws
carUpdate(o, dtF, mult100, others) ==
  LET o1 == [moveDown(o, dtF, mult100) EXCEPT !.laneChangeTimer = @ + dtF,
                                              !.blinkerTimer = @ + dtF]
      o2 == IF o1.blinkerTimer > 12
            THEN [o1 EXCEPT !.blinkerState = ~@, !.blinkerTimer = 0] ELSE o1
      moveSpeed == lateralStep(dtF)
  IN  IF o2.targetLaneX # NoLane
      THEN {laneChangeStep(o2, moveSpeed)}
      ELSE IF o2.laneChangeTimer > 180
           THEN LET o3 == [o2 EXCEPT !.laneChangeTimer = 0]
                IN  {o3} \cup tryChangeLane(o3, others)
           ELSE {o2}

\* obs.update(deltaTime, context), dispatched on the class of obs
obstacleUpdate(o, dtF, mult100, others) ==
  IF o.kind = "car" THEN carUpdate(o, dtF, mult100, others)
  ELSE {moveDown(o, dtF, mult100)}

\* Road.update: laneSpeed is 300 px/s
roadUpdate(offset, dtF, mult100) ==
  LET moved == offset + (Px(5) * mult100 * dtF) \div 100
  IN  IF moved > Px(40) THEN 0 ELSE moved

(***************************************************************************)
(* ParticleSystem (game/engine.ts).  A particle keeps its kind, its life   *)
(* in 1/120 and its decay in 1/120 per frame; position, velocity and size  *)
(* are drawn only and are left out.                                        *)
(***************************************************************************)
SPARK_COUNT == 30
FullLife == 2 * 60

\* emitSmoke: decay 2.5 per second
emitSmoke(ps) == Append(ps, [type |-> "smoke", life |-> FullLife, decay |-> 5])

\* emitSparks: 30 particles of decay 2.0 + Math.random() per second; the model
\* gives the particles of one burst the same draw
emitSparks(ps, decay) ==
  ps \o [i \in 1..SPARK_COUNT |-> [type |-> "spark", life |-> FullLife, decay |-> decay]]

\* an update that removes dead particles but ages none
particlesUpdateNoAging(ps, dtF) ==
  LET alive(p) == p.life > 0
  IN  SelectSeq(ps, alive)

\* an update that keeps a particle whose life is exactly 0
particlesUpdateKeepsSpent(ps, dtF) ==
  LET moved == [i \in 1..Len(ps) |-> [ps[i] EXCEPT !.life = @ - ps[i].decay * dtF]]
      alive(p) == p.life >= 0
  IN  SelectSeq(moved, alive)

\* ParticleSystem.update
particlesUpdate(ps, dtF) ==
  LET moved == [i \in 1..Len(ps) |-> [ps[i] EXCEPT !.life = @ - ps[i].decay * dtF]]
      alive(p) == p.life > 0
  IN  SelectSeq(moved, alive)

(***************************************************************************)
(* The session (components/RacingGame.tsx, the richer RacingGame).         *)
(*                                                                         *)
(* A pending requestAnimationFrame callback is a record: closure is the    *)
(* gameState that the animate of that render closed over, ref says that    *)
(* requestRef.current names it.  Callbacks run oldest first.               *)
(***************************************************************************)
\* the draws of the model: frames per tick (multiples of 3), the speeds of a
\* spawned car (2 + Math.random() * 2) and truck (4.5 + Math.random()) in half
\* pixels per frame, the initial lane-change timer of a car in frames, and the
\* decay of a spark in 1/120 per frame
DeltaFrames == {60}
SpawnLanes == {2, 3}
DifficultyChoices == {"MEDIUM", "EXTREME"}
CarSpeeds == {4}
TruckSpeeds == {9}
InitTimers == {90}
SparkDecays == {4}

NoTick == [kind |-> "none"]
SessionInit == [removed |-> 0, prevMult |-> 0, prevDiff |-> "none"]

\* requestRef.current = requestAnimationFrame(animate)
requestFrame(fs, closure) ==
  [i \in 1..Len(fs) |-> [fs[i] EXCEPT !.ref = FALSE]]
    \o <<[closure |-> closure, ref |-> TRUE]>>

\* a cancelAnimationFrame that cancels nothing
cancelFrameNothing(fs) == fs

\* if (requestRef.current) cancelAnimationFrame(requestRef.current)
cancelFrame(fs) ==
  LET unnamed(f) == ~f.ref
  IN  SelectSeq(fs, unnamed)

\* obstaclesRef.current.splice(index, 1)
splice(seq, k) == SubSeq(seq, 1, k - 1) \o SubSeq(seq, k + 1, Len(seq))

\* a handleGameOver that returns to the menu
handleGameOverToMenu(g) ==
  [g EXCEPT !.gameState = "MENU",
            !.sound = stopMusic(stopEngine(g.sound)),
            !.frames = cancelFrame(g.frames),
            !.gameOvers = @ + 1]

\* handleGameOver, on the record g a tick works on: the refs and React state
\* it writes, with the log of the pass (orig gives each live entity its index
\* at the start of the pass); playCrash starts a noise burst that ends by itself
handleGameOver(g) ==
  [g EXCEPT !.gameState = "GAME_OVER",
            !.sound = stopMusic(stopEngine(g.sound)),
            !.frames = cancelFrame(g.frames),
            !.gameOvers = @ + 1]

\* the entities of the list other than the one at index k
othersOf(obs, k) == {obs[i] : i \in 1..Len(obs) \ {k}}

\* a removal that is worth two points
scoredTwice(sc) == sc + 2

\* scoreRef.current += 1
scored(sc) == sc + 1

\* a callback that also removes and scores the entity the player hit
obstacleCallbackScoreOnHit(g, k, o2, p, decay) ==
  LET g1 == [g EXCEPT !.obstacles[k] = o2, !.updated = Append(@, g.orig[k])]
  IN  IF checkCollision(p, o2) \/ isOffScreen(o2, CANVAS_HEIGHT)
      THEN [g1 EXCEPT !.obstacles = splice(@, k), !.orig = splice(@, k),
                      !.collided = IF checkCollision(p, o2)
                                   THEN Append(@, g.orig[k]) ELSE @,
                      !.scoreRef = scored(@), !.score = scored(g1.scoreRef),
                      !.removed = Append(@, g.orig[k]), !.setScores = @ + 1]
      ELSE g1

\* a callback that ends the game only when no particle is alive
obstacleCallbackQuietWhileSparks(g, k, o2, p, decay) ==
  LET g1 == [g EXCEPT !.obstacles[k] = o2, !.updated = Append(@, g.orig[k])]
  IN  IF checkCollision(p, o2) /\ g.particles = <<>>
      THEN handleGameOver([g1 EXCEPT !.particles = emitSparks(@, decay),
                                     !.sparks = @ + 1,
                                     !.collided = Append(@, g.orig[k])])
      ELSE IF isOffScreen(o2, CANVAS_HEIGHT)
           THEN [g1 EXCEPT !.obstacles = splice(@, k), !.orig = splice(@, k),
                           !.scoreRef = scored(@), !.score = scored(g1.scoreRef),
                           !.removed = Append(@, g.orig[k]),
                           !.setScores = @ + 1]
           ELSE g1

\* the forEach callback of the obstacle pass, after obs.update left o2 at
\* index k: collision detection, then removal and scoring
obstacleCallback(g, k, o2, p, decay) ==
  LET g1 == [g EXCEPT !.obstacles[k] = o2, !.updated = Append(@, g.orig[k]),
                      !.off = IF o2.y > Px(CANVAS_HEIGHT)
                              THEN Append(@, g.orig[k]) ELSE @,
                      !.changes =
                        IF g.obstacles[k].targetLaneX = NoLane
                           /\ o2.targetLaneX # NoLane
                        THEN Append(@, [car |-> o2, before |-> g.obstacles[k],
                                        others |-> othersOf(g.obstacles, k)])
                        ELSE @,
                      !.expired =
                        IF g.obstacles[k].targetLaneX = NoLane
                           /\ g.obstacles[k].laneChangeTimer > 0
                           /\ o2.laneChangeTimer = 0
                        THEN Append(@, [car |-> o2, before |-> g.obstacles[k],
                                        others |-> othersOf(g.obstacles, k)])
                        ELSE @]
  IN  IF checkCollision(p, o2)
      THEN handleGameOver([g1 EXCEPT !.particles = emitSparks(@, decay),
                                     !.sparks = @ + 1,
                                     !.collided = Append(@, g.orig[k])])
      ELSE IF isOffScreen(o2, CANVAS_HEIGHT)
           THEN [g1 EXCEPT !.obstacles = splice(@, k), !.orig = splice(@, k),
                           !.scoreRef = scored(@), !.score = scored(g1.scoreRef),
                           !.removed = Append(@, g.orig[k]),
                           !.setScores = @ + 1]
           ELSE g1

\* obstaclesRef.current.forEach((obs, index) => ...): Array.prototype.forEach
\* visits the indices below the length read at the start that are still in
\* the array; k is the index, n0 that length.  The set of results, one per
\* outcome of the draws.
RECURSIVE obstaclePass(_, _, _, _, _, _, _)
obstaclePass(g, k, n0, p, dtF, mult100, decay) ==
  IF k > n0 \/ k > Len(g.obstacles) THEN {g}
  ELSE UNION { obstaclePass(obstacleCallback(g, k, o2, p, decay),
                            k + 1, n0, p, dtF, mult100, decay)
               : o2 \in obstacleUpdate(g.obstacles[k], dtF, mult100,
                                       othersOf(g.obstacles, k)) }

\* a lane test that sees only entities whose left edge is on the lane
\* coordinate
laneBlockedExactLane(obs, laneX) ==
  \E i \in 1..Len(obs) :
    /\ getBounds(obs[i]).left = Px(laneX)
    /\ getBounds(obs[i]).top < Px(200)

\* the spawn's laneBlocked
laneBlocked(obs, laneX) ==
  \E i \in 1..Len(obs) :
    /\ Abs(getBounds(obs[i]).left - Px(laneX)) < Px(30)
    /\ getBounds(obs[i]).top < Px(200)

\* the entities a spawn may construct in lane laneX: Barrier, Truck or car
spawnKinds(laneX) ==
  {Barrier(laneX + 5)}
    \cup {Truck(laneX - 5, sp) : sp \in TruckSpeeds}
    \cup {ObstacleCar(laneX, sp, t) : sp \in CarSpeeds, t \in InitTimers}

\* the lists the spawn step may leave: unchanged (the draw is not below
\* spawnRate, or the lane is blocked), or with one new entity pushed
spawnOutcomes(obs, sc) ==
  {obs} \cup
  (IF Len(obs) < MaxObstacles /\ sc + Len(obs) < MaxScore
   THEN UNION { IF laneBlocked(obs, LANES[l]) THEN {}
                ELSE {Append(obs, n) : n \in spawnKinds(LANES[l])}
                : l \in SpawnLanes }
   ELSE {})

\* smoke when turning, then particleSystemRef.current.update(deltaTime)
particleStep(ps, dtF, keys, smoke) ==
  particlesUpdate(IF (keys.left \/ keys.right) /\ smoke
                  THEN emitSmoke(emitSmoke(ps)) ELSE ps, dtF)

KeyStates == [left : BOOLEAN, right : {FALSE}]

\* Math.random() < 0.5 is drawn only while a key is held
SmokeDraws(keys) == IF keys.left \/ keys.right THEN BOOLEAN ELSE {FALSE}

Init ==
  /\ gameState = "MENU"
  /\ renderedState = "MENU"
  /\ mounted = TRUE
  /\ pendingStarts = 0
  /\ difficulty = "MEDIUM"
  /\ difficultyRef = "MEDIUM"
  /\ score = 0
  /\ scoreRef = 0
  /\ player = NoPlayer
  /\ obstacles = <<>>
  /\ particles = <<>>
  /\ laneOffset = 0
  /\ lastTimeSet = FALSE
  /\ frames = <<>>
  /\ tickLog = NoTick
  /\ session = SessionInit
  /\ sound = SoundInit
  /\ audioClock = 0

\* onClick={startGame}: the call runs to "await soundManagerRef.current?.init()"
StartGameCall ==
  /\ mounted
  /\ renderedState \in {"MENU", "GAME_OVER"}
  /\ pendingStarts < MaxPendingStarts
  /\ pendingStarts' = pendingStarts + 1
  /\ tickLog' = NoTick
  /\ UNCHANGED <<gameState, renderedState, mounted, difficulty, difficultyRef,
                 score, scoreRef, player, obstacles, particles, laneOffset,
                 lastTimeSet, frames, session, audioVars>>

\* the car kinds a start is given: a key of CAR_CONFIGS and one that
\* CAR_CONFIGS does not have
CarKeys == {selectedCar, "UNKNOWN"}

\* startGame after the await, with selectedCar = car: React ignores setScore
\* and setGameState once the component is unmounted; the animate it requests
\* is the one of the render that showed the button.  CAR_CONFIGS[type] is
\* undefined for a key it does not have, and the PlayerCar constructor throws
\* on config.width: startGame ends there.
startGameAfterAwait(car) ==
  /\ pendingStarts > 0
  /\ Len(frames) < MaxFrames
  /\ pendingStarts' = pendingStarts - 1
  /\ sound' = startEngine(startMusic(sound, audioClock))
  /\ particles' = <<>>
  /\ score' = IF mounted THEN 0 ELSE score
  /\ scoreRef' = 0
  /\ IF car \in CarTypes
     THEN /\ player' = PlayerCar(CANVAS_WIDTH, CANVAS_HEIGHT, car)
          /\ obstacles' = <<>>
          /\ lastTimeSet' = FALSE
          /\ gameState' = IF mounted THEN "PLAYING" ELSE gameState
          /\ frames' = requestFrame(frames, "MENU")
     ELSE UNCHANGED <<player, obstacles, lastTimeSet, gameState, frames>>
  /\ tickLog' = [kind |-> "start", car |-> car, from |-> gameState,
                 left |-> [scoreRef |-> scoreRef, obstacles |-> Len(obstacles),
                           particles |-> Len(particles), player |-> player]]
  /\ session' = SessionInit
  /\ UNCHANGED <<renderedState, mounted, difficulty, difficultyRef, laneOffset,
                 audioClock>>

StartGameResume == startGameAfterAwait(selectedCar)

\* the promise of ctx.resume() is rejected: startGame ends at the await
StartGameRejected ==
  /\ pendingStarts > 0
  /\ pendingStarts' = pendingStarts - 1
  /\ tickLog' = [kind |-> "rejected"]
  /\ UNCHANGED <<gameState, renderedState, mounted, difficulty, difficultyRef,
                 score, scoreRef, player, obstacles, particles, laneOffset,
                 lastTimeSet, frames, session, audioVars>>

\* React commits a render: the difficulty effect, and when gameState changed
\* the cleanup of the gameState effect followed by the effect itself
Render ==
  /\ mounted
  /\ renderedState # gameState \/ difficultyRef # difficulty
  /\ difficultyRef' = difficulty
  /\ renderedState' = gameState
  /\ frames' = IF renderedState = gameState THEN frames
               ELSE IF gameState = "PLAYING"
                    THEN requestFrame(cancelFrame(frames), "PLAYING")
                    ELSE cancelFrame(cancelFrame(frames))
  /\ tickLog' = NoTick
  /\ UNCHANGED <<gameState, mounted, pendingStarts, difficulty, score, scoreRef,
                 player, obstacles, particles, laneOffset, lastTimeSet, session,
                 audioVars>>

\* onClick={() => setGameState(GameState.MENU)}
BackToMenu ==
  /\ mounted
  /\ renderedState = "GAME_OVER"
  /\ gameState' = "MENU"
  /\ tickLog' = NoTick
  /\ UNCHANGED <<renderedState, mounted, pendingStarts, difficulty,
                 difficultyRef, score, scoreRef, player, obstacles, particles,
                 laneOffset, lastTimeSet, frames, session, audioVars>>

\* onClick={() => setDifficulty(mode)}
SetDifficulty ==
  /\ mounted
  /\ renderedState = "MENU"
  /\ \E d \in DifficultyChoices \ {difficulty} : difficulty' = d
  /\ tickLog' = NoTick
  /\ UNCHANGED <<gameState, renderedState, mounted, pendingStarts,
                 difficultyRef, score, scoreRef, player, obstacles, particles,
                 laneOffset, lastTimeSet, frames, session, audioVars>>

\* the component is torn down: the cleanups of the gameState effect and of
\* the SoundManager effect
Unmount ==
  /\ mounted
  /\ mounted' = FALSE
  /\ frames' = cancelFrame(frames)
  /\ sound' = stopEngine(stopMusic(sound))
  /\ tickLog' = NoTick
  /\ UNCHANGED <<gameState, renderedState, pendingStarts, difficulty,
                 difficultyRef, score, scoreRef, player, obstacles, particles,
                 laneOffset, lastTimeSet, session, audioClock>>

\* animate of a render whose gameState was not PLAYING: returns at once
StaleFrame ==
  /\ frames # <<>>
  /\ Head(frames).closure # "PLAYING"
  /\ frames' = Tail(frames)
  /\ tickLog' = NoTick
  /\ UNCHANGED <<gameState, renderedState, mounted, pendingStarts, difficulty,
                 difficultyRef, score, scoreRef, player, obstacles, particles,
                 laneOffset, lastTimeSet, session, audioVars>>

\* animate with no canvas context (the component is gone) or no player:
\* lastTimeRef is set and the callback returns without a new request
TickNoContext ==
  /\ frames # <<>>
  /\ Head(frames).closure = "PLAYING"
  /\ ~mounted \/ player = NoPlayer
  /\ frames' = Tail(frames)
  /\ lastTimeSet' = TRUE
  /\ tickLog' = NoTick
  /\ UNCHANGED <<gameState, renderedState, mounted, pendingStarts, difficulty,
                 difficultyRef, score, scoreRef, player, obstacles, particles,
                 laneOffset, session, audioVars>>

\* the logic update of animate on the refs, state and pending frames of the
\* current state, with ps as the particle list and deltaTime drawn from
\* deltas: the set of its results, one per outcome of the draws.  The
\* gameState it tests is the one of its closure.
tickOutcomes(ps, deltas) ==
  UNION {
    UNION {
      LET closure == Head(frames).closure
          mult100 == speedMultiplier100(scoreRef, difficultyRef)
          p1 == playerUpdate(player, dtF, keys, CANVAS_WIDTH)
          ps1 == particleStep(ps, dtF, keys, smoke)
      IN  UNION {
            LET g0 == [gameState |-> gameState, score |-> score,
                       scoreRef |-> scoreRef, obstacles |-> obs1,
                       orig |-> [i \in 1..Len(obs1) |-> i],
                       particles |-> ps1,
                       sound |-> updateEngine(sound, mult100),
                       frames |-> Tail(frames),
                       updated |-> <<>>, collided |-> <<>>, removed |-> <<>>,
                       off |-> <<>>, changes |-> <<>>, expired |-> <<>>,
                       gameOvers |-> 0, sparks |-> 0,
                       setScores |-> 0]
            IN  { [laneOffset |-> roadUpdate(laneOffset, dtF, mult100),
                   player |-> p1,
                   obstacles |-> g.obstacles,
                   particles |-> g.particles,
                   score |-> g.score,
                   scoreRef |-> g.scoreRef,
                   gameState |-> g.gameState,
                   sound |-> g.sound,
                   frames |-> IF closure # "PLAYING" THEN g.frames
                              ELSE requestFrame(g.frames, closure),
                   session |-> [removed |-> session.removed + Len(g.removed),
                                prevMult |-> mult100,
                                prevDiff |-> difficultyRef],
                   tickLog |-> [kind |-> "tick", dtF |-> dtF,
                                mult100 |-> mult100,
                                prevMult |-> session.prevMult,
                                diff |-> difficultyRef,
                                prevDiff |-> session.prevDiff,
                                scoreBefore |-> scoreRef,
                                n0 |-> Len(obs1),
                                spawned |-> Len(obs1) > Len(obstacles),
                                afterSpawn |-> obs1,
                                updated |-> g.updated,
                                collided |-> g.collided,
                                removed |-> g.removed, off |-> g.off,
                                kept |-> g.orig,
                                changes |-> g.changes,
                                expired |-> g.expired,
                                gameOvers |-> g.gameOvers,
                                sparks |-> g.sparks,
                                setScores |-> g.setScores]]
                  : g \in obstaclePass(g0, 1, Len(obs1), p1, dtF, mult100, decay) }
            : obs1 \in spawnOutcomes(obstacles, scoreRef) }
      : smoke \in SmokeDraws(keys) }
    : dtF \in deltas, keys \in KeyStates, decay \in SparkDecays }

\* animate: one tick
Tick ==
  /\ frames # <<>>
  /\ Head(frames).closure = "PLAYING"
  /\ mounted /\ player # NoPlayer
  /\ \E r \in tickOutcomes(particles,
                            IF lastTimeSet THEN DeltaFrames ELSE {0}) :
       /\ lastTimeSet' = TRUE
       /\ laneOffset' = r.laneOffset
       /\ player' = r.player
       /\ obstacles' = r.obstacles
       /\ particles' = r.particles
       /\ score' = r.score
       /\ scoreRef' = r.scoreRef
       /\ gameState' = r.gameState
       /\ sound' = r.sound
       /\ frames' = r.frames
       /\ session' = r.session
       /\ tickLog' = r.tickLog
  /\ UNCHANGED <<renderedState, mounted, pendingStarts, difficulty,
                 difficultyRef, audioClock>>

Next ==
  \/ StartGameCall
  \/ StartGameResume
  \/ StartGameRejected
  \/ Render
  \/ BackToMenu
  \/ SetDifficulty
  \/ Unmount
  \/ StaleFrame
  \/ TickNoContext
  \/ Tick
  \/ TimerFire

Spec == Init /\ [][Next]_vars

NextAudio ==
  \/ AudioStartMusic
  \/ AudioStopMusic
  \/ AudioStartEngine
  \/ AudioStopEngine
  \/ TimerFire
  \/ AdvanceClock

SpecAudio == Init /\ [][NextAudio]_vars

(***************************************************************************)
(* The music over more than a bar: it starts at any phase of a beat, and   *)
(* the timer fires after the clock has moved by one or by three note       *)
(* intervals.                                                              *)
(***************************************************************************)
BeatClock == 90
BeatStarts == 0..(NOTE_INTERVAL - 1)
BeatDelays == {NOTE_INTERVAL, 3 * NOTE_INTERVAL}

InitBeat ==
  /\ gameState = "MENU"
  /\ renderedState = "MENU"
  /\ mounted = TRUE
  /\ pendingStarts = 0
  /\ difficulty = "MEDIUM"
  /\ difficultyRef = "MEDIUM"
  /\ score = 0
  /\ scoreRef = 0
  /\ player = NoPlayer
  /\ obstacles = <<>>
  /\ particles = <<>>
  /\ laneOffset = 0
  /\ lastTimeSet = FALSE
  /\ frames = <<>>
  /\ tickLog = NoTick
  /\ session = SessionInit
  /\ sound = SoundInit
  /\ audioClock \in BeatStarts

\* ctx.currentTime moves on while the timer is pending
BeatAdvance ==
  /\ sound.timerPending
  /\ \E d \in BeatDelays :
       /\ audioClock + d <= BeatClock
       /\ audioClock' = audioClock + d
  /\ UNCHANGED <<sound, gameVars>>

NextBeat ==
  \/ AudioStartMusic
  \/ TimerFire
  \/ BeatAdvance

SpecBeat == InitBeat /\ [][NextBeat]_vars

(***************************************************************************)
(* The particle system on its own: any order of emitSmoke, emitSparks,     *)
(* update and clear.  tickLog.ages gives, for each particle of the list,   *)
(* the number of updates with deltaTime > 0 it has been through.           *)
(***************************************************************************)
MaxSmoke == 2
MaxBursts == 1
ParticleDeltas == {0, 3, 10}
BurstDecays == {4, 6}

countOf(ps, type) == Cardinality({i \in 1..Len(ps) : ps[i].type = type})

InitParticles ==
  /\ gameState = "PLAYING"
  /\ renderedState = "PLAYING"
  /\ mounted = TRUE
  /\ pendingStarts = 0
  /\ difficulty = "MEDIUM"
  /\ difficultyRef = "MEDIUM"
  /\ score = 0
  /\ scoreRef = 0
  /\ player = NoPlayer
  /\ obstacles = <<>>
  /\ particles = <<>>
  /\ laneOffset = 0
  /\ lastTimeSet = TRUE
  /\ frames = <<>>
  /\ tickLog = [kind |-> "particles", op |-> "new", dtF |-> 0,
                lenBefore |-> 0, ages |-> <<>>]
  /\ session = SessionInit
  /\ sound = SoundInit
  /\ audioClock = 0

particleVarsUnchanged ==
  UNCHANGED <<gameState, renderedState, mounted, pendingStarts, difficulty,
              difficultyRef, score, scoreRef, player, obstacles, laneOffset,
              lastTimeSet, frames, session, audioVars>>

\* particleSystem.emitSmoke(x, y)
EmitSmoke ==
  /\ tickLog.kind = "particles"
  /\ countOf(particles, "smoke") < MaxSmoke
  /\ particles' = emitSmoke(particles)
  /\ tickLog' = [tickLog EXCEPT !.op = "smoke", !.dtF = 0,
                                !.lenBefore = Len(particles),
                                !.ages = Append(@, 0)]
  /\ particleVarsUnchanged

\* particleSystem.emitSparks(x, y)
EmitSparks ==
  /\ tickLog.kind = "particles"
  /\ countOf(particles, "spark") < MaxBursts * SPARK_COUNT
  /\ \E decay \in BurstDecays : particles' = emitSparks(particles, decay)
  /\ tickLog' = [tickLog EXCEPT !.op = "sparks", !.dtF = 0,
                                !.lenBefore = Len(particles),
                                !.ages = @ \o [i \in 1..SPARK_COUNT |-> 0]]
  /\ particleVarsUnchanged

\* particleSystem.update(dt)
ParticlesUpdate ==
  /\ tickLog.kind = "particles"
  /\ \E dtF \in ParticleDeltas :
       LET kept == {i \in 1..Len(particles) :
                      particles[i].life - particles[i].decay * dtF > 0}
           aged == [i \in 1..Len(particles) |->
                      IF dtF > 0 THEN tickLog.ages[i] + 1 ELSE tickLog.ages[i]]
           pick(seq) == LET idx == [i \in 1..Len(seq) |-> [i |-> i, v |-> seq[i]]]
                            in(e) == e.i \in kept
                            sel == SelectSeq(idx, in)
                        IN  [j \in 1..Len(sel) |-> sel[j].v]
       IN  /\ particles' = particlesUpdate(particles, dtF)
           /\ tickLog' = [tickLog EXCEPT !.op = "update", !.dtF = dtF,
                                         !.lenBefore = Len(particles),
                                         !.ages = pick(aged)]
  /\ particleVarsUnchanged

\* particleSystem.clear()
ParticlesClear ==
  /\ tickLog.kind = "particles"
  /\ particles # <<>>
  /\ particles' = <<>>
  /\ tickLog' = [tickLog EXCEPT !.op = "clear", !.dtF = 0,
                                !.lenBefore = Len(particles), !.ages = <<>>]
  /\ particleVarsUnchanged

NextParticles ==
  \/ EmitSmoke
  \/ EmitSparks
  \/ ParticlesUpdate
  \/ ParticlesClear

SpecParticles == InitParticles /\ [][NextParticles]_vars

(***************************************************************************)
(* Ticks of a session in progress with three entities on the road.  The    *)
(* session starts from every choice of kind and height for an entity in    *)
(* each of three lanes, in spawn order, and runs ticks from there.         *)
(***************************************************************************)
PassLanes == <<1, 3, 4>>
PassHeights == {100, 550}

\* the entities the spawn step can have constructed in lane l, moved to
\* height y
passEntities(l, y) ==
  {[n EXCEPT !.y = Px(y)] :
     n \in {Truck(LANES[l] - 5, sp) : sp \in TruckSpeeds}
          \cup {ObstacleCar(LANES[l], sp, t) : sp \in CarSpeeds, t \in InitTimers}}

InitPass ==
  /\ gameState = "PLAYING"
  /\ renderedState = "PLAYING"
  /\ mounted = TRUE
  /\ pendingStarts = 0
  /\ difficulty = "MEDIUM"
  /\ difficultyRef = "MEDIUM"
  /\ score = 0
  /\ scoreRef = 0
  /\ player = PlayerCar(CANVAS_WIDTH, CANVAS_HEIGHT, selectedCar)
  /\ \E y1 \in PassHeights, y2 \in PassHeights, y3 \in PassHeights :
       \E a \in passEntities(PassLanes[1], y1),
          b \in passEntities(PassLanes[2], y2),
          c \in passEntities(PassLanes[3], y3) :
         obstacles = <<a, b, c>>
  /\ particles = <<>>
  /\ laneOffset = 0
  /\ lastTimeSet = TRUE
  /\ frames = requestFrame(<<>>, "PLAYING")
  /\ tickLog = NoTick
  /\ session = SessionInit
  /\ sound = startEngine(startMusic(SoundInit, 0))
  /\ audioClock = 0

SpecPass == InitPass /\ [][Tick]_vars

\* startGame with every key as the selected car kind
StartGameConfigured == \E car \in CarKeys : startGameAfterAwait(car)

NextConfig ==
  \/ StartGameCall
  \/ StartGameConfigured
  \/ Render
  \/ StaleFrame
  \/ Tick
  \/ TimerFire

SpecConfig == Init /\ [][NextConfig]_vars

(***************************************************************************)
(* One car on its own: a new ObstacleCar updated tick after tick, with any *)
(* split of the time into ticks, until it has left the canvas.  tickLog    *)
(* keeps where it started, the time elapsed, whether every tick so far was *)
(* one frame long, and for how long it has been changing lane.             *)
(***************************************************************************)
\* the lanes, speeds (half px per frame), multipliers (1/100), initial
\* lane-change timers (frames) and tick lengths (frames) the car is tried with
UnitLanes == {1, 2, 4}
UnitSpeeds == {6}
UnitMults == {100}
UnitTimers == {117}
UnitDeltas == {1, 7, 60}

InitCar ==
  /\ gameState = "PLAYING"
  /\ renderedState = "PLAYING"
  /\ mounted = TRUE
  /\ pendingStarts = 0
  /\ difficulty = "MEDIUM"
  /\ difficultyRef = "MEDIUM"
  /\ score = 0
  /\ scoreRef = 0
  /\ player = NoPlayer
  /\ particles = <<>>
  /\ laneOffset = 0
  /\ lastTimeSet = TRUE
  /\ frames = <<>>
  /\ session = SessionInit
  /\ sound = SoundInit
  /\ audioClock = 0
  /\ \E l \in UnitLanes, sp \in UnitSpeeds, t \in UnitTimers, m \in UnitMults :
       /\ obstacles = <<ObstacleCar(LANES[l], sp, t)>>
       /\ tickLog = [kind |-> "car", mult100 |-> m, x0 |-> Px(LANES[l]),
                     y0 |-> Px(0 - 100), elapsed |-> 0, shortest |-> TRUE,
                     ticksChanging |-> 0, framesChanging |-> 0]

\* obs.update(deltaTime, context) of a car that is still in the list
CarUpdate ==
  /\ tickLog.kind = "car"
  /\ ~isOffScreen(obstacles[1], CANVAS_HEIGHT)
  /\ \E dtF \in UnitDeltas :
       \E o2 \in carUpdate(obstacles[1], dtF, tickLog.mult100, {}) :
         LET stillChanging == obstacles[1].targetLaneX # NoLane
                                /\ o2.targetLaneX # NoLane
         IN  /\ obstacles' = <<o2>>
             /\ tickLog' = [tickLog EXCEPT
                              !.elapsed = @ + dtF,
                              !.shortest = @ /\ dtF = 1,
                              !.ticksChanging = IF stillChanging THEN @ + 1 ELSE 0,
                              !.framesChanging = IF stillChanging THEN @ + dtF ELSE 0]
  /\ UNCHANGED <<gameState, renderedState, mounted, pendingStarts, difficulty,
                 difficultyRef, score, scoreRef, player, particles, laneOffset,
                 lastTimeSet, frames, session, audioVars>>

SpecCar == InitCar /\ [][CarUpdate]_vars

(***************************************************************************)
(* The player's car on its own: a new PlayerCar of any type updated with   *)
(* any keys held and any time between ticks.                               *)
(***************************************************************************)
PlayerDeltas == {0, 1, 7, 60}
AllKeyStates == [left : BOOLEAN, right : BOOLEAN]

InitPlayer ==
  /\ gameState = "PLAYING"
  /\ renderedState = "PLAYING"
  /\ mounted = TRUE
  /\ pendingStarts = 0
  /\ difficulty = "MEDIUM"
  /\ difficultyRef = "MEDIUM"
  /\ score = 0
  /\ scoreRef = 0
  /\ obstacles = <<>>
  /\ particles = <<>>
  /\ laneOffset = 0
  /\ lastTimeSet = TRUE
  /\ frames = <<>>
  /\ session = SessionInit
  /\ sound = SoundInit
  /\ audioClock = 0
  /\ \E type \in CarTypes : player = PlayerCar(CANVAS_WIDTH, CANVAS_HEIGHT, type)
  /\ tickLog = [kind |-> "playerInit"]

\* playerRef.current.update(deltaTime, context)
PlayerUpdate ==
  /\ tickLog.kind \in {"playerInit", "player"}
  /\ \E dtF \in PlayerDeltas, keys \in AllKeyStates :
       /\ player' = playerUpdate(player, dtF, keys, CANVAS_WIDTH)
       /\ tickLog' = [kind |-> "player", before |-> player, keys |-> keys,
                      dtF |-> dtF]
  /\ UNCHANGED <<gameState, renderedState, mounted, pendingStarts, difficulty,
                 difficultyRef, score, scoreRef, obstacles, particles,
                 laneOffset, lastTimeSet, frames, session, audioVars>>

SpecPlayer == InitPlayer /\ [][PlayerUpdate]_vars

(***************************************************************************)
(* The overlap test on its own: the player's car of any type and one       *)
(* entity placed around it, apart, overlapping, and touching on each side. *)
(***************************************************************************)
\* offsets in px of the entity from the position where its right (bottom)
\* edge is on the player's left (top) edge
EdgeOffsets == {0 - 1, 0, 1}

\* the x (y) coordinates to try for an entity of extent d against a player
\* that spans from lo to hi: around touching on either side, and lo itself
RectCoordinates(lo, hi, d) ==
  {lo - d + e : e \in EdgeOffsets} \cup {hi + e : e \in EdgeOffsets} \cup {lo}

InitRect ==
  /\ gameState = "PLAYING"
  /\ renderedState = "PLAYING"
  /\ mounted = TRUE
  /\ pendingStarts = 0
  /\ difficulty = "MEDIUM"
  /\ difficultyRef = "MEDIUM"
  /\ score = 0
  /\ scoreRef = 0
  /\ particles = <<>>
  /\ laneOffset = 0
  /\ lastTimeSet = TRUE
  /\ frames = <<>>
  /\ session = SessionInit
  /\ sound = SoundInit
  /\ audioClock = 0
  /\ \E type \in {"SPORTS", "TRUCK"} :
       player = PlayerCar(CANVAS_WIDTH, CANVAS_HEIGHT, type)
  /\ \E shape \in {Barrier(0), Truck(0, 9)} :
       \E x \in RectCoordinates(player.x \div SubPx,
                                (player.x + player.width) \div SubPx,
                                shape.width \div SubPx),
          y \in RectCoordinates(player.y \div SubPx,
                                (player.y + player.height) \div SubPx,
                                shape.height \div SubPx) :
         obstacles = <<[shape EXCEPT !.x = Px(x), !.y = Px(y)]>>
  /\ tickLog = [kind |-> "rect"]

\* playerRef.current.checkCollision(obs), and obs.checkCollision(player)
CheckCollision ==
  /\ tickLog.kind = "rect"
  /\ tickLog' = [kind |-> "collide",
                 ab |-> checkCollision(player, obstacles[1]),
                 ba |-> checkCollision(obstacles[1], player)]
  /\ UNCHANGED <<gameState, renderedState, mounted, pendingStarts, difficulty,
                 difficultyRef, score, scoreRef, player, obstacles, particles,
                 laneOffset, lastTimeSet, frames, session, audioVars>>

SpecRect == InitRect /\ [][CheckCollision]_vars

\* ---------------------------------------------------------------------------
\* Properties of the tick, stated over the log of the last tick

Range(seq) == {seq[i] : i \in 1..Len(seq)}

ticked == tickLog.kind = "tick"

\* C1: in every tick, each entity that is off-screen (top > 600) after its
\* update and for which no collision was detected in that tick is removed from
\* the live list in that same tick, and the score rises by exactly 1 for each
\* entity so removed.
C1_OffScreenRemovedAndScored ==
  ticked =>
    /\ Range(tickLog.off) \ Range(tickLog.collided) \subseteq Range(tickLog.removed)
    /\ Range(tickLog.removed) \cap Range(tickLog.kept) = {}
    /\ Cardinality(Range(tickLog.removed)) = Len(tickLog.removed)
    /\ Len(obstacles) = tickLog.n0 - Len(tickLog.removed)
    /\ scoreRef = tickLog.scoreBefore + Len(tickLog.removed)
    /\ score = scoreRef

\* a tick that started with two live entities removed one of them off-screen
C1_Witness ==
  /\ ticked
  /\ tickLog.n0 >= 2
  /\ tickLog.off # <<>>
  /\ tickLog.removed # <<>>
  /\ scoreRef = tickLog.scoreBefore + 1

\* C2: an entity for which a collision with the player was detected in a tick
\* is not removed as off-screen in that tick and stays in the live list, and
\* the score of the tick counts only the entities removed as off-screen.
C2_CollisionBeforeRemoval ==
  ticked =>
    /\ Range(tickLog.collided) \cap Range(tickLog.removed) = {}
    /\ Range(tickLog.collided) \subseteq Range(tickLog.kept)
    /\ Range(tickLog.removed) \subseteq Range(tickLog.off)
    /\ tickLog.setScores = Len(tickLog.removed)

\* a tick detected a collision with one entity and removed another
C2_Witness ==
  /\ ticked
  /\ tickLog.collided # <<>>
  /\ tickLog.removed # <<>>

\* C3: the score is a non-negative integer equal to the number of entities
\* removed as off-screen since the last session start (which resets it to 0).
C3_ScoreCountsRemovals ==
  /\ scoreRef \in Nat
  /\ scoreRef = session.removed
  /\ mounted => score = scoreRef

\* two entities have left the screen in this session
C3_Witness ==
  /\ ticked
  /\ scoreRef >= 2
  /\ session.removed >= 2

\* C4: within one session the speed multiplier of a tick is never below the
\* one of the tick before, and every tick of the session reads the same
\* difficulty.
C4_MultiplierNonDecreasing ==
  (ticked /\ tickLog.prevMult # 0) =>
    /\ tickLog.mult100 >= tickLog.prevMult
    /\ tickLog.diff = tickLog.prevDiff

\* a tick ran with a larger multiplier than the tick before it
C4_Witness ==
  /\ ticked
  /\ tickLog.prevMult # 0
  /\ tickLog.mult100 > tickLog.prevMult

\* C5: a tick that detects a collision stops there: the crash handling runs
\* once, and no entity later in the list is updated, removed or scored.
C5_CrashEndsPass ==
  (ticked /\ tickLog.collided # <<>>) =>
    /\ tickLog.gameOvers = 1
    /\ tickLog.sparks = 1
    /\ Len(tickLog.collided) = 1
    /\ tickLog.updated[Len(tickLog.updated)] = tickLog.collided[1]
    /\ \A i \in Range(tickLog.removed) : i < tickLog.collided[1]

\* C6: once a crash has put the game in GAME_OVER no render-loop callback that
\* would run a tick is pending.
C6_NoFrameAfterCrash ==
  gameState = "GAME_OVER" =>
    \A i \in 1..Len(frames) : frames[i].closure # "PLAYING"

\* C7: while the game is in MENU or GAME_OVER nothing sounds: the music is not
\* playing, no scheduler timer is pending and no engine oscillator is live.
C7_SilentOutsidePlaying ==
  gameState \in {"MENU", "GAME_OVER"} =>
    /\ ~sound.isMusicPlaying
    /\ ~sound.timerPending
    /\ sound.strayTimers = 0
    /\ ~sound.engineOsc
    /\ sound.liveEngines = 0

\* C8: a tick that runs the crash handling twice leaves what running it once
\* leaves: audio stopped, no scheduler timer and no render-loop callback
\* pending.
C8_StopTwiceIsStopOnce ==
  (ticked /\ tickLog.gameOvers >= 2) =>
    /\ gameState = "GAME_OVER"
    /\ ~sound.isMusicPlaying
    /\ ~sound.timerPending
    /\ sound.strayTimers = 0
    /\ ~sound.engineOsc
    /\ frames = <<>>

\* ---------------------------------------------------------------------------
\* Properties of the SoundManager

\* C9: from every reachable audio state, stopMusic followed by stopEngine
\* leaves no oscillator running: no engine oscillator, no music node live or
\* tracked, the music flag down and no scheduler timer pending.
C9_StopLeavesSilence ==
  LET s == stopEngine(stopMusic(sound))
  IN  /\ ~s.engineOsc
      /\ s.liveEngines = 0
      /\ s.liveMusic = 0
      /\ s.musicNodes = <<>>
      /\ ~s.isMusicPlaying
      /\ ~s.timerPending
      /\ s.strayTimers = 0
      /\ (~sound.isMusicPlaying /\ ~sound.engineOsc) => s = sound

\* music that scheduled three notes and an engine were both stopped
C9_Witness ==
  /\ ~sound.isMusicPlaying
  /\ ~sound.engineOsc
  /\ Len(sound.notes) >= 3
  /\ sound.engineFreq # 0
  /\ sound.liveMusic = 0

\* C10: the notes scheduled during one music run have strictly increasing
\* times, consecutive ones exactly NOTE_INTERVAL apart.
C10_NotesEvenlySpaced ==
  \A i \in 1..(Len(sound.notes) - 1) :
    sound.notes[i + 1].t = sound.notes[i].t + NOTE_INTERVAL

\* a late timer scheduled two notes in one firing, after an earlier note
C10_Witness ==
  /\ Len(sound.notes) >= 3
  /\ \E i \in 1..(Len(sound.notes) - 1) :
       /\ sound.notes[i + 1].now = sound.notes[i].now
       /\ sound.notes[i].now > sound.notes[1].now

\* C11: every time passed to scheduleNote is strictly after the audio clock
\* read at that firing.
C11_NotesAfterClock ==
  \A i \in 1..Len(sound.notes) : sound.notes[i].t > sound.notes[i].now

\* the cursor moved: by how much, and whether the step started a music run
cursorStep == sound'.nextNoteTime - sound.nextNoteTime
musicStarts == ~sound.isMusicPlaying /\ sound'.isMusicPlaying

\* C12 as stated: over any sequence of startMusic, stopMusic and timer firings
\* nextNoteTime never decreases and changes only by whole note intervals.
C12_CursorOnlyStepsForward ==
  [][cursorStep >= 0 /\ cursorStep % NOTE_INTERVAL = 0]_vars

\* C12: startMusic on a stopped manager sets nextNoteTime to the audio clock
\* (and schedules from there); every other step leaves it or raises it by a
\* whole number of note intervals, and only while the music is playing.
C12_CursorStepsWithinRun ==
  [][IF musicStarts
     THEN /\ sound'.nextNoteTime >= audioClock + LOOKAHEAD
          /\ (sound'.nextNoteTime - audioClock) % NOTE_INTERVAL = 0
     ELSE /\ cursorStep >= 0
          /\ cursorStep % NOTE_INTERVAL = 0
          /\ cursorStep > 0 => sound.isMusicPlaying]_vars

\* a run that started off the grid of the run before it has advanced its
\* cursor three times
C12_Witness ==
  /\ sound.isMusicPlaying
  /\ Len(sound.notes) >= 3
  /\ sound.notes[1].t % NOTE_INTERVAL # 0
  /\ sound.nextNoteTime = sound.notes[1].t + Len(sound.notes) * NOTE_INTERVAL

\* ---------------------------------------------------------------------------
\* Properties of the traffic entities

\* entity b is within the clearance window of lane coordinate laneX, seen
\* from a car whose top is at y
inWindow(b, laneX, y) ==
  /\ Abs(b.x - laneX) < Px(30)
  /\ Abs(b.y - y) < Px(150)

\* C13: a car that starts a lane change in a tick (targetLaneX set from null)
\* has, at that moment, no other live entity within the clearance window of
\* the target lane, and the target is a lane next to its own.
C13_NoChangeIntoOccupiedLane ==
  ticked =>
    \A i \in 1..Len(tickLog.changes) :
      LET c == tickLog.changes[i]
      IN  /\ \A b \in c.others : ~inWindow(b, c.car.targetLaneX, c.car.y)
          /\ Abs(c.car.targetLaneX - c.car.x) = Px(100)

\* a car started a lane change while another entity was in the target lane,
\* further than the clearance away
C13_Witness ==
  /\ ticked
  /\ \E i \in 1..Len(tickLog.changes) :
       \E b \in tickLog.changes[i].others :
         /\ Abs(b.x - tickLog.changes[i].car.targetLaneX) < Px(30)
         /\ Abs(b.y - tickLog.changes[i].car.y) >= Px(150)

\* C14 as stated: a car with another entity in its own lane less than 150 px
\* away vertically does not start a lane change.
C14_SameLaneNeighbourRejects ==
  ticked =>
    \A i \in 1..Len(tickLog.changes) :
      LET c == tickLog.changes[i]
      IN  \A b \in c.others : ~inWindow(b, c.car.x, c.car.y)

\* the car of a lane-change decision, as tryChangeLane receives it
deciding(e) == [e.car EXCEPT !.targetLaneX = NoLane, !.blinkerSide = "none"]

\* C14: when the cooldown of a car expires while another entity is in a lane
\* next to the car's within the clearance window, no attempt toward that
\* lane is accepted: every outcome of tryChangeLane leaves targetLaneX null or
\* set to another lane.
C14_NeighbourInTargetLaneRejects ==
  ticked =>
    \A i \in 1..Len(tickLog.expired) :
      LET e == tickLog.expired[i]
      IN  \A b \in e.others, t \in 1..Len(LANES) :
            inWindow(b, Px(LANES[t]), e.car.y) =>
              \A o \in tryChangeLane(deciding(e), e.others) :
                o.targetLaneX # Px(LANES[t])

\* a cooldown expired with a neighbour within the window of an adjacent lane
\* and the car stayed in its lane
C14_Witness ==
  /\ ticked
  /\ \E i \in 1..Len(tickLog.expired) :
       LET e == tickLog.expired[i]
       IN  /\ e.car.targetLaneX = NoLane
           /\ \E b \in e.others, t \in 1..Len(LANES) :
                /\ Abs(Px(LANES[t]) - e.car.x) = Px(100)
                /\ inWindow(b, Px(LANES[t]), e.car.y)

\* the lane coordinates, in sub-pixels
laneCoordinates == {Px(LANES[i]) : i \in 1..Len(LANES)}

\* the longest a lane change lasts, in frames: the 100 px between two lanes
\* at 100 px per 60 frames
LaneChangeFrames == (100 * 60) \div 100

\* C15: a car changing lane converges: the updates that leave it changing
\* lane cover at most 60 frames (so at most 60 ticks of one frame or more),
\* the next update puts it on a lane coordinate exactly and cruising again,
\* and a cruising car is always exactly on a lane coordinate.
C15_LaneChangeConverges ==
  tickLog.kind = "car" =>
    LET o == obstacles[1]
    IN  /\ tickLog.framesChanging <= LaneChangeFrames
        /\ tickLog.ticksChanging <= LaneChangeFrames
        /\ o.targetLaneX = NoLane => o.x \in laneCoordinates
        /\ o.targetLaneX # NoLane =>
             /\ o.targetLaneX \in laneCoordinates
             /\ Abs(o.targetLaneX - o.x)
                  = Px(100) - lateralStep(tickLog.framesChanging)

\* a car is cruising in a lane next to the one it was created in
C15_Witness ==
  /\ tickLog.kind = "car"
  /\ obstacles[1].targetLaneX = NoLane
  /\ Abs(obstacles[1].x - tickLog.x0) = Px(100)
  /\ ~tickLog.shortest

\* C19: the y of a car is where it started plus speed * speedMultiplier * 60
\* times the time elapsed, whatever the split of that time into ticks; a car
\* of speed 3 at speedMultiplier 1 is 180 px further down after one second.
C19_VerticalMotionFrameRateIndependent ==
  tickLog.kind = "car" =>
    LET o == obstacles[1]
    IN  /\ o.y = tickLog.y0 + o.speed2 * tickLog.mult100 * tickLog.elapsed * 3
        /\ (o.speed2 = 6 /\ tickLog.mult100 = 100 /\ tickLog.elapsed = 60)
             => o.y - tickLog.y0 = Px(180)

\* a car of speed 3 has been advanced through 60 ticks of 1/60 s
C19_Witness ==
  /\ tickLog.kind = "car"
  /\ tickLog.shortest
  /\ tickLog.elapsed = 60
  /\ obstacles[1].speed2 = 6
  /\ tickLog.mult100 = 100
  /\ obstacles[1].y = Px(80)

\* the rectangles of the overlap test
rectA == getBounds(player)
rectB == getBounds(obstacles[1])

\* the open interiors of the two rectangles intersect
interiorsMeet ==
  /\ rectA.left < rectB.right /\ rectB.left < rectA.right
  /\ rectA.top < rectB.bottom /\ rectB.top < rectA.bottom

\* C16: the overlap test gives the same answer whichever rectangle it is
\* called on.
C16_CollisionSymmetric ==
  tickLog.kind = "collide" => tickLog.ab = tickLog.ba

\* the test was made both ways on two rectangles that touch along the
\* player's right edge
C16_Witness ==
  /\ tickLog.kind = "collide"
  /\ rectB.left = rectA.right
  /\ rectB.top < rectA.bottom /\ rectA.top < rectB.bottom
  /\ tickLog.ab = tickLog.ba

\* C17: two rectangles that share only an edge (their interiors do not meet)
\* are reported as not overlapping.
C17_TouchingIsNotOverlap ==
  (tickLog.kind = "collide" /\ ~interiorsMeet) => ~tickLog.ab

\* C18: after every update of the player, whatever the keys held and the
\* time since the last tick, 10 <= x <= canvasWidth - width - 10; a player
\* at x = 10 with only left held stays at x = 10.
C18_PlayerStaysOnRoad ==
  tickLog.kind = "player" =>
    /\ player.x >= Px(10)
    /\ player.x <= Px(CANVAS_WIDTH) - player.width - Px(10)
    /\ (tickLog.before.x = Px(10) /\ tickLog.keys.left /\ ~tickLog.keys.right)
         => player.x = Px(10)

\* a player at the left clamp was updated for a tick with only left held
C18_Witness ==
  /\ tickLog.kind = "player"
  /\ tickLog.before.x = Px(10)
  /\ tickLog.keys.left /\ ~tickLog.keys.right
  /\ tickLog.dtF > 0
  /\ player.x = Px(10)

\* C20: in every tick each entity that is live at the start of the entity
\* pass, one spawned in that tick included, is processed exactly once, in
\* list order, also when entities are removed during the pass.
C20_EveryEntityProcessedOnce ==
  ticked => tickLog.updated = [i \in 1..tickLog.n0 |-> i]

C22_StartSurvivesAudioFailure ==
  tickLog.kind = "rejected"
    => /\ gameState = "PLAYING"
       /\ player # NoPlayer
       /\ frames # <<>>

(***************************************************************************)
(* C23: the write sets of the two loops are disjoint: a tick leaves the    *)
(* whole SoundManager as it was, and the scheduler's timer callback leaves *)
(* score, entities and session state as they were.                         *)
(***************************************************************************)
C23_WriteSetsDisjoint ==
  [][ /\ Tick => sound' = sound
      /\ TimerFire => UNCHANGED gameVars ]_vars

(***************************************************************************)
(* C23, amended: the timer callback writes no score, entity or session     *)
(* state; a tick never writes the scheduler's cursor, its notes or its     *)
(* timer while the session goes on: it writes the frequency of a sounding  *)
(* engine tone, and a tick that detects a collision stops the engine tone  *)
(* and the music.                                                          *)
(***************************************************************************)
C23_TickWritesEngineToneOnly ==
  [][ /\ TimerFire => UNCHANGED gameVars
      /\ Tick =>
           LET tuned == [sound EXCEPT !.engineFreq = sound'.engineFreq]
           IN  /\ sound'.engineFreq # sound.engineFreq => sound.engineOsc
               /\ sound'.nextNoteTime = sound.nextNoteTime
               /\ sound'.notes = sound.notes
               /\ sound'.strayTimers = sound.strayTimers
               /\ IF tickLog'.gameOvers = 0
                  THEN sound' = tuned
                  ELSE sound' = stopMusic(stopEngine(tuned)) ]_vars

\* a tick of a session that goes on has retuned the sounding engine tone,
\* with notes of the music scheduled
C23_Witness ==
  /\ ticked
  /\ tickLog.gameOvers = 0
  /\ tickLog.scoreBefore > 0
  /\ sound.engineOsc
  /\ sound.engineFreq = 80 * 100 + tickLog.mult100 * 60
  /\ sound.notes # <<>>

\* startGame has just run to its end in the mounted component, called from
\* the state from
started(from) ==
  /\ tickLog.kind = "start"
  /\ tickLog.car \in CarTypes
  /\ tickLog.from = from
  /\ mounted

(***************************************************************************)
(* C24: a start from Menu or from Crashed enters Playing with score 0, no  *)
(* obstacle, no particle and a new player centred 20 px above the bottom   *)
(* edge, whatever the previous session left behind.                        *)
(***************************************************************************)
C24_StartGivesFreshSession ==
  (started("MENU") \/ started("GAME_OVER"))
    => /\ gameState = "PLAYING"
       /\ score = 0 /\ scoreRef = 0
       /\ obstacles = <<>>
       /\ particles = <<>>
       /\ player.kind = "player"
       /\ 2 * player.x + player.width = Px(CANVAS_WIDTH)
       /\ player.y + player.height = Px(CANVAS_HEIGHT - 20)
       /\ session = SessionInit

\* a restart after a crash that left a score, an obstacle, sparks and a
\* player that had moved
C24_Witness ==
  /\ started("GAME_OVER")
  /\ tickLog.left.scoreRef > 0
  /\ tickLog.left.obstacles > 0
  /\ tickLog.left.particles > 0
  /\ tickLog.left.player # player
  /\ gameState = "PLAYING"

\* the transitions of the session state machine
machineSteps ==
  { <<"MENU", "PLAYING">>, <<"PLAYING", "GAME_OVER">>,
    <<"GAME_OVER", "PLAYING">>, <<"GAME_OVER", "MENU">> }

(***************************************************************************)
(* C25: the session state follows Menu -> Playing -> Crashed ->            *)
(* (Playing | Menu) only.  The state the component is in (the gameState of *)
(* its last render) changes only along these transitions; the value        *)
(* handed to setGameState becomes PLAYING only by a startGame that ran to  *)
(* its end, GAME_OVER only from PLAYING and only by a tick that detected a *)
(* collision, and MENU only from the Crashed screen; so no tick moves a    *)
(* session that is in Menu or Crashed.                                     *)
(***************************************************************************)
C25_SessionStateMachine ==
  [][ /\ renderedState' # renderedState
           => <<renderedState, renderedState'>> \in machineSteps
      /\ gameState' # gameState =>
           \/ /\ gameState \in {"MENU", "GAME_OVER"}
              /\ gameState' = "PLAYING"
              /\ tickLog'.kind = "start"
           \/ /\ gameState = "PLAYING"
              /\ gameState' = "GAME_OVER"
              /\ tickLog'.kind = "tick"
              /\ tickLog'.collided # <<>>
           \/ /\ renderedState = "GAME_OVER"
              /\ gameState' = "MENU"
              /\ tickLog'.kind = "none" ]_vars

\* the session is back in the menu after a crash, with the obstacle the
\* player hit still in the list
C25_Witness ==
  /\ gameState = "MENU"
  /\ renderedState = "MENU"
  /\ \E i \in 1..Len(obstacles) : checkCollision(player, obstacles[i])

\* the lane coordinate a spawned entity was constructed for: a Barrier is
\* placed 5 px right of it, a Truck 5 px left of it, a car on it
spawnLaneOf(n) ==
  IF n.kind = "barrier" THEN n.x - Px(5)
  ELSE IF n.kind = "truck" THEN n.x + Px(5)
  ELSE n.x

\* entity e is in the clearance window of the lane at laneX
inSpawnWindow(e, laneX) ==
  /\ Abs(getBounds(e).left - laneX) < Px(30)
  /\ getBounds(e).top < Px(200)

(***************************************************************************)
(* C26: the spawn step of a tick leaves the list as it was or appends      *)
(* exactly one new entity, above the canvas on one of the four lanes, and  *)
(* only when no existing entity is in the clearance window of that lane    *)
(* (left within 30 px of the lane coordinate and top < 200): right after   *)
(* the spawn no other entity is in the window of the new entity's lane.    *)
(***************************************************************************)
C26_SpawnOnlyIntoClearLane ==
  [][ Tick =>
        LET after == tickLog'.afterSpawn
            n0 == Len(obstacles)
        IN  \/ after = obstacles
            \/ /\ Len(after) = n0 + 1
               /\ SubSeq(after, 1, n0) = obstacles
               /\ after[n0 + 1].y < 0
               /\ \E l \in 1..Len(LANES) :
                    spawnLaneOf(after[n0 + 1]) = Px(LANES[l])
               /\ \A i \in 1..n0 :
                    ~inSpawnWindow(after[i], spawnLaneOf(after[n0 + 1])) ]_vars

\* a tick has spawned a second entity while the first was still above
\* y = 200, in another lane
C26_Witness ==
  /\ ticked
  /\ tickLog.spawned
  /\ Len(tickLog.afterSpawn) = 2
  /\ getBounds(tickLog.afterSpawn[1]).top < Px(200)
  /\ getBounds(tickLog.afterSpawn[1]).top > 0

(***************************************************************************)
(* C27: no tick changes the score more than once: a tick calls setScore    *)
(* at most once.                                                           *)
(***************************************************************************)
C27_ScoreSetOncePerTick ==
  ticked => tickLog.setScores <= 1

(***************************************************************************)
(* C27, amended: a tick changes the score once for each entity it removes: *)
(* it calls setScore as many times as it removes entities, each call with  *)
(* the score one higher, and not at all when it removes none.              *)
(***************************************************************************)
C27_ScoreSetOncePerRemoval ==
  ticked =>
    /\ tickLog.setScores = Len(tickLog.removed)
    /\ scoreRef = tickLog.scoreBefore + Len(tickLog.removed)
    /\ tickLog.setScores > 0 => score = scoreRef

\* a tick has removed two entities and set the score twice
C27_Witness ==
  /\ ticked
  /\ tickLog.setScores = 2
  /\ Len(tickLog.removed) = 2

\* particle q has been advanced by the dtF frames of the last tick
advanced(q) == q.life <= FullLife - q.decay * tickLog.dtF

(***************************************************************************)
(* C28: a tick advances the particle subsystem last, after the entity      *)
(* pass: every particle that exists after a tick, the sparks of a          *)
(* collision of that tick included, has been advanced by the tick.         *)
(***************************************************************************)
C28_ParticlesAdvancedLast ==
  (ticked /\ tickLog.dtF > 0)
    => \A i \in 1..Len(particles) : advanced(particles[i])

(***************************************************************************)
(* C28, amended: a tick advances the player, then emits smoke and advances *)
(* the particle subsystem, then attempts a spawn, then runs the entity     *)
(* pass.  So the sparks of a collision are not advanced by the tick that   *)
(* emits them while every older particle is, an entity spawned in a tick   *)
(* is visited by that tick's pass unless the removal before it makes the   *)
(* pass skip it, and collisions are tested against the player as moved by  *)
(* the tick.                                                               *)
(***************************************************************************)
C28_ParticlesBeforeSpawnAndPass ==
  ticked =>
    LET n == Len(particles)
        k == SPARK_COUNT * tickLog.sparks
    IN  /\ k <= n
        /\ \A i \in 1..n :
             IF i > n - k
             THEN particles[i].type = "spark" /\ particles[i].life = FullLife
             ELSE advanced(particles[i])
        /\ tickLog.spawned =>
             \/ tickLog.n0 \in Range(tickLog.updated)
             \/ tickLog.n0 - 1 \in Range(tickLog.removed)
        /\ \A j \in 1..Len(obstacles) :
             tickLog.kept[j] \in Range(tickLog.collided)
               => checkCollision(player, obstacles[j])

\* a tick of one second has spawned an entity, has moved the player and
\* has detected a collision, whose sparks are all there at full life
C28_Witness ==
  /\ ticked
  /\ tickLog.dtF > 0
  /\ tickLog.sparks = 1
  /\ tickLog.spawned
  /\ 2 * player.x + player.width # Px(CANVAS_WIDTH)
  /\ Len(particles) = SPARK_COUNT
  /\ \A i \in 1..Len(particles) : particles[i].life = FullLife

(***************************************************************************)
(* C29: a car whose remaining lateral distance is at most one step ends    *)
(* the update on the lane, cruising: at the end of an update targetLaneX   *)
(* is never non-null while x already equals it.                            *)
(***************************************************************************)
C29_OnTargetMeansCruising ==
  tickLog.kind = "car" =>
    LET o == obstacles[1]
    IN  o.targetLaneX # NoLane => o.x # o.targetLaneX

(***************************************************************************)
(* C30: a car goes from Cruising to ChangingLane only in an update in      *)
(* which its cooldown had passed 3 s and was reset, and only into a lane   *)
(* that is not blocked; it is then on a lane coordinate, its target is the *)
(* lane coordinate 100 px to its left or right (from an edge lane, the one *)
(* lane next to it), and its blinker shows the side of the target.         *)
(***************************************************************************)
C30_LaneChangeStartsOnlyWhenDue ==
  ticked =>
    \A e \in Range(tickLog.changes) :
      /\ e \in Range(tickLog.expired)
      /\ e.car.laneChangeTimer = 0
      /\ e.car.x \in laneCoordinates
      /\ e.car.targetLaneX \in laneCoordinates
      /\ Abs(e.car.targetLaneX - e.car.x) = Px(100)
      /\ e.car.x = Px(LANES[1]) => e.car.targetLaneX = Px(LANES[2])
      /\ e.car.x = Px(LANES[4]) => e.car.targetLaneX = Px(LANES[3])
      /\ e.car.blinkerSide
           = (IF e.car.targetLaneX < e.car.x THEN "left" ELSE "right")
      /\ \A b \in e.others :
           ~(/\ Abs(getBounds(b).left - e.car.targetLaneX) < Px(30)
             /\ Abs(getBounds(b).top - e.car.y) < Px(150))

\* a car in the leftmost lane has begun a lane change, to its right, while
\* another entity was on the road
C30_Witness ==
  /\ ticked
  /\ \E e \in Range(tickLog.changes) :
       /\ e.others # {}
       /\ e.car.x = Px(LANES[1])
       /\ e.car.blinkerSide = "right"
       /\ e.car.targetLaneX = Px(LANES[2])

\* every lane next to the lane of the car of e is blocked for it
allTargetsBlocked(e) ==
  \A t \in 1..Len(LANES) :
    Abs(Px(LANES[t]) - e.car.x) = Px(100)
      => \E b \in e.others :
           /\ Abs(getBounds(b).left - Px(LANES[t])) < Px(30)
           /\ Abs(getBounds(b).top - e.car.y) < Px(150)

(***************************************************************************)
(* C31: a lane-change attempt that fails is a silent no-op.  A car whose   *)
(* cooldown expired in a tick and that began no lane change (every attempt *)
(* into a blocked lane ends so) keeps its x, stays with targetLaneX null   *)
(* and its blinker side as it was, and has its cooldown timer back at 0;   *)
(* and a car begins a lane change only in an update at which its timer     *)
(* passes 3 s, so not before the next expiry.                              *)
(***************************************************************************)
C31_FailedAttemptIsNoOp ==
  ticked =>
    /\ \A e \in Range(tickLog.expired) :
         /\ allTargetsBlocked(e) => e \notin Range(tickLog.changes)
         /\ e \notin Range(tickLog.changes) =>
              /\ e.car.x = e.before.x
              /\ e.car.targetLaneX = NoLane
              /\ e.car.blinkerSide = e.before.blinkerSide
              /\ e.car.blinkerSide = "none"
              /\ e.car.laneChangeTimer = 0
    /\ \A e \in Range(tickLog.changes) :
         e.before.laneChangeTimer + tickLog.dtF > 3 * 60

\* the cooldown of a car in an edge lane expired while the only lane next
\* to it was blocked
C31_Witness ==
  /\ ticked
  /\ \E e \in Range(tickLog.expired) :
       /\ e.others # {}
       /\ e.car.x \in {Px(LANES[1]), Px(LANES[4])}
       /\ allTargetsBlocked(e)
       /\ e.car.laneChangeTimer = 0

(***************************************************************************)
(* C32: after each firing of the scheduler timer while the music is        *)
(* running, however late, the cursor is at least the lookahead and less    *)
(* than the lookahead plus one note interval ahead of the audio clock, and *)
(* the notes scheduled since the music started are exactly the nominal     *)
(* times below the cursor, each once: a late firing schedules everything   *)
(* it missed.                                                              *)
(***************************************************************************)
C32_FiringFillsLookahead ==
  [][ (TimerFire /\ sound'.isMusicPlaying) =>
        LET s == sound'
            n == Len(s.notes)
        IN  /\ audioClock + LOOKAHEAD <= s.nextNoteTime
            /\ s.nextNoteTime < audioClock + LOOKAHEAD + NOTE_INTERVAL
            /\ n > 0
            /\ \A i \in 1..n :
                 s.notes[i].t = s.notes[1].t + (i - 1) * NOTE_INTERVAL
            /\ s.notes[n].t = s.nextNoteTime - NOTE_INTERVAL
            /\ s.timerPending ]_vars

\* a firing delayed by more than two note intervals has just scheduled two
\* notes at once
C32_Witness ==
  /\ sound.isMusicPlaying
  /\ sound.timerPending
  /\ Len(sound.notes) >= 3
  /\ LET n == Len(sound.notes)
     IN  /\ sound.notes[n].now = audioClock
         /\ sound.notes[n - 1].now = audioClock
         /\ sound.notes[1].now < audioClock
  /\ audioClock + LOOKAHEAD <= sound.nextNoteTime

\* the number of music nodes of kind k started for time t
nodesAt(t, k) ==
  Cardinality({j \in 1..Len(sound.musicNodes) :
                 sound.musicNodes[j].time = t /\ sound.musicNodes[j].kind = k})

\* floor(t * 4) mod 8 for t in units of 25 ms
barBeat(t) == (t \div 10) % 8

(***************************************************************************)
(* C33: for every scheduled note at time t, with beat = floor(t * 4) mod   *)
(* 8: a kick is played iff beat is 0 or 4, a hi-hat iff beat is odd, and   *)
(* one bass note always, at 55 Hz when beat < 4 and at 65 Hz otherwise;    *)
(* consecutive notes have consecutive beats modulo 8.                      *)
(***************************************************************************)
C33_BeatPattern ==
  sound.isMusicPlaying =>
    \A i \in 1..Len(sound.notes) :
      LET t == sound.notes[i].t
          beat == barBeat(t)
      IN  /\ nodesAt(t, "kick") = (IF beat \in {0, 4} THEN 1 ELSE 0)
          /\ nodesAt(t, "hihat") = (IF beat \in {1, 3, 5, 7} THEN 1 ELSE 0)
          /\ nodesAt(t, "bass55") = (IF beat < 4 THEN 1 ELSE 0)
          /\ nodesAt(t, "bass65") = (IF beat < 4 THEN 0 ELSE 1)
          /\ i > 1 => beat = (barBeat(sound.notes[i - 1].t) + 1) % 8

\* the music has played through a whole bar and into the next, starting
\* off the beat
C33_Witness ==
  /\ sound.isMusicPlaying
  /\ Len(sound.notes) >= 9
  /\ sound.notes[1].t % 10 # 0
  /\ \E i \in 2..Len(sound.notes) :
       barBeat(sound.notes[i].t) = 0 /\ barBeat(sound.notes[i - 1].t) = 7

\* the least positive deltaTime of the particle specification, in frames
leastDelta == CHOOSE d \in ParticleDeltas \ {0} :
                \A e \in ParticleDeltas \ {0} : d <= e

(***************************************************************************)
(* C34: after every update all remaining particles have 0 < life <= 1; a   *)
(* particle that has been through k updates with deltaTime > 0 has lost at *)
(* least k times its decay over the least deltaTime, so it is removed      *)
(* after a bounded number of them; emitSmoke adds exactly 1 particle,      *)
(* emitSparks exactly 30, clear empties the list.                          *)
(***************************************************************************)
C34_ParticleLifeCycle ==
  tickLog.kind = "particles" =>
    /\ Len(tickLog.ages) = Len(particles)
    /\ \A i \in 1..Len(particles) :
         /\ particles[i].life <= 120 - particles[i].decay * tickLog.ages[i] * leastDelta
         /\ tickLog.op = "update" => 0 < particles[i].life
    /\ tickLog.op = "update" => Len(particles) <= tickLog.lenBefore
    /\ tickLog.op = "smoke" =>
         /\ Len(particles) = tickLog.lenBefore + 1
         /\ particles[Len(particles)].type = "smoke"
         /\ particles[Len(particles)].life = 120
    /\ tickLog.op = "sparks" =>
         /\ Len(particles) = tickLog.lenBefore + 30
         /\ \A i \in (tickLog.lenBefore + 1)..Len(particles) :
              particles[i].type = "spark" /\ particles[i].life = 120
    /\ tickLog.op = "clear" => particles = <<>>

\* an update has removed some particles and kept others that had been
\* through several updates
C34_Witness ==
  /\ tickLog.kind = "particles"
  /\ tickLog.op = "update"
  /\ tickLog.dtF > 0
  /\ particles # <<>>
  /\ Len(particles) < tickLog.lenBefore
  /\ \E i \in 1..Len(particles) : tickLog.ages[i] >= 3

\* a result of a tick without its particle list
withoutParticles(r) == [r EXCEPT !.particles = <<>>]

\* a tick can run in the current state
tickEnabled ==
  /\ frames # <<>>
  /\ Head(frames).closure = "PLAYING"
  /\ mounted /\ player # NoPlayer

\* the times between two frames, in frames, for which the results of a tick
\* are compared
CosmeticDeltas == {0, 3, 60}

(***************************************************************************)
(* C35: particles never affect collision or scoring: in every state in     *)
(* which a tick can run, the results a tick can have for the player, the   *)
(* entities, the score, the session state, the audio and the pending       *)
(* frames, over all draws, are the same with the particle list as it is,   *)
(* with an empty list and with one more smoke particle.                    *)
(***************************************************************************)
C35_ParticlesAreCosmetic ==
  tickEnabled =>
    LET here == {withoutParticles(r) :
                   r \in tickOutcomes(particles, CosmeticDeltas)}
    IN  /\ here = {withoutParticles(r) :
                     r \in tickOutcomes(<<>>, CosmeticDeltas)}
        /\ here = {withoutParticles(r) :
                     r \in tickOutcomes(emitSmoke(particles), CosmeticDeltas)}

\* a tick is about to run with the sparks of a crash alive and the player
\* overlapping an entity
C35_Witness ==
  /\ tickEnabled
  /\ Len(particles) >= SPARK_COUNT
  /\ \E i \in 1..Len(obstacles) : checkCollision(player, obstacles[i])

(***************************************************************************)
(* C36: the blinker is active only while the car is changing lane: at the  *)
(* end of every update blinkerSide is set exactly when targetLaneX is, and *)
(* the on/off phase toggles, and the blinker timer restarts, exactly in    *)
(* the updates in which more than 0.2 s (12 frames) has accumulated,       *)
(* whatever the lateral progress.                                          *)
(***************************************************************************)
C36_BlinkerOnlyWhileChangingLane ==
  [][LET o == obstacles[1]
         n == obstacles'[1]
         dtF == tickLog'.elapsed - tickLog.elapsed
         due == o.blinkerTimer + dtF > 12
     IN  /\ (n.blinkerSide # "none") <=> (n.targetLaneX # NoLane)
         /\ n.blinkerState = (IF due THEN ~o.blinkerState ELSE o.blinkerState)
         /\ n.blinkerTimer = (IF due THEN 0 ELSE o.blinkerTimer + dtF)]_vars

\* a car part of the way through a lane change, its blinker lit, and
\* time accumulated toward the next toggle
C36_Witness ==
  /\ tickLog.kind = "car"
  /\ obstacles[1].targetLaneX # NoLane
  /\ obstacles[1].blinkerSide # "none"
  /\ obstacles[1].x # tickLog.x0
  /\ obstacles[1].blinkerState
  /\ obstacles[1].blinkerTimer > 0
  /\ tickLog.ticksChanging >= 2

(***************************************************************************)
(* C37: for any sequence of startMusic, stopMusic, startEngine, stopEngine *)
(* and timer firings, at most one scheduler timer is pending (none that    *)
(* timerID no longer names) and at most one engine oscillator is live;     *)
(* startMusic while music is playing changes nothing, and startEngine      *)
(* leaves exactly one oscillator live.                                     *)
(***************************************************************************)
C37_OneTimerOneEngine ==
  /\ sound.strayTimers = 0
  /\ sound.liveEngines <= 1
  /\ sound.engineOsc <=> sound.liveEngines = 1
  /\ sound.isMusicPlaying => startMusic(sound, audioClock) = sound
  /\ startEngine(sound).liveEngines = 1
  /\ startEngine(sound).strayTimers = 0

\* music playing for several notes with its timer pending, the engine
\* running, and the clock past the start of the music
C37_Witness ==
  /\ sound.isMusicPlaying
  /\ sound.timerPending
  /\ sound.engineOsc
  /\ Len(sound.notes) >= 2
  /\ audioClock > sound.notes[1].t

(***************************************************************************)
(* C38: at the end of every tick no entity remaining in the live-entity    *)
(* list is off-screen (top > 600), although entities are removed by index  *)
(* while the list is iterated and a collision skips the off-screen test    *)
(* of the colliding entity.                                                *)
(***************************************************************************)
C38_NoOffScreenEntityRemains ==
  \A i \in 1..Len(obstacles) : getBounds(obstacles[i]).top <= Px(CANVAS_HEIGHT)

\* a tick removed an entity and its pass skipped an entity that is still in
\* the list
C38_SkipWitness ==
  /\ tickLog.kind = "tick"
  /\ tickLog.removed # <<>>
  /\ \E i \in 1..Len(tickLog.kept) :
       \A j \in 1..Len(tickLog.updated) : tickLog.updated[j] # tickLog.kept[i]

\* a tick removed an entity by index and the player hit another, which
\* stays in the list untested
C38_Witness ==
  /\ tickLog.kind = "tick"
  /\ tickLog.removed # <<>>
  /\ tickLog.collided # <<>>
  /\ obstacles # <<>>
  /\ \E i \in 1..Len(obstacles) : checkCollision(player, obstacles[i])

\* the car is on a lane coordinate when cruising and on the road anyway
onLaneOrBetween(o) ==
  /\ o.targetLaneX = NoLane => o.x \in laneCoordinates
  /\ o.targetLaneX # NoLane => o.targetLaneX \in laneCoordinates
  /\ Px(50) <= o.x /\ o.x <= Px(350)

(***************************************************************************)
(* C39: a cruising car (targetLaneX null) has x exactly on one of the lane *)
(* coordinates 50, 150, 250, 350; during a lane change every update moves  *)
(* x toward targetLaneX or leaves it, never past it; so x stays within     *)
(* [50, 350].                                                              *)
(***************************************************************************)
C39_CarOnLaneOrApproaching ==
  [][LET o == obstacles[1]
         n == obstacles'[1]
         t == o.targetLaneX
     IN  /\ onLaneOrBetween(o)
         /\ onLaneOrBetween(n)
         /\ t = NoLane => n.x = o.x
         /\ t # NoLane /\ o.x <= t => o.x <= n.x /\ n.x <= t
         /\ t # NoLane /\ o.x >= t => t <= n.x /\ n.x <= o.x]_vars

\* a car part of the way from lane 350 to lane 250 after several updates of
\* different lengths, less than one long tick's step away from the lane
C39_Witness ==
  /\ tickLog.kind = "car"
  /\ tickLog.x0 = Px(350)
  /\ obstacles[1].targetLaneX = Px(250)
  /\ obstacles[1].x > Px(250)
  /\ obstacles[1].x < Px(260)
  /\ ~tickLog.shortest
  /\ tickLog.ticksChanging >= 2

\* the pending render-loop callbacks that will execute a full tick: those
\* whose closure saw gameState PLAYING
tickingFrames == {i \in 1..Len(frames) : frames[i].closure = "PLAYING"}

(***************************************************************************)
(* C40: at any time at most one pending render-loop callback will execute  *)
(* a full tick, whatever the sequence of starts (a second start before the *)
(* first has finished its audio initialisation included), crashes, returns *)
(* to the menu and restarts: no two tick chains run concurrently.          *)
(***************************************************************************)
C40_OneTickChain == Cardinality(tickingFrames) <= 1

\* a second startGame has resumed during play: its callback, which returns
\* at once, is pending together with the callback of the running chain,
\* which requestRef no longer names
C40_Witness ==
  /\ tickLog.kind = "start"
  /\ tickLog.from = "PLAYING"
  /\ renderedState = "PLAYING"
  /\ Len(frames) = 2
  /\ \E i \in tickingFrames : ~frames[i].ref
  /\ \E i \in 1..Len(frames) : frames[i].closure = "MENU" /\ frames[i].ref

====
